---- MODULE Spec2Model ----
(***************************************************************************)
(* markdown-prerender: DynamicRenderer, processDynamicComponents and       *)
(* useDynamicComponents.                                                   *)
(*                                                                         *)
(* A content string is a sequence of tokens.  The tokens are the pieces of *)
(* text the regular expressions of DynamicRenderer tell apart: the fence   *)
(* of three backticks, the two syntax tags, the newline, whole block       *)
(* bodies, prose, and the placeholder elements the renderer writes.        *)
(***************************************************************************)
EXTENDS Integers, Sequences, FiniteSets, TLC

VARIABLES content, definitions, pc, currentContent, allComponentPairs, i,
          passes, result, dom, roots, extracted, form, first, renders, deps

vars == <<content, definitions, pc, currentContent, allComponentPairs, i,
          passes, result, dom, roots, extracted, form, first, renders, deps>>

(***************************************************************************)
(* Bounds of the model.                                                    *)
(***************************************************************************)
MaxSegs == 3

(***************************************************************************)
(* Tokens.                                                                 *)
(***************************************************************************)
\* The fence marker of three backticks.
F == "[fence]"
J == "json"
T == "ts"
N == "\n"
P == "Write your content as usual."

\* json bodies
X1 == "{\"type\":\"dynamicRenderer\",\"id\":\"x\",\"props\":{\"n\":1}}"
X2 == "{\"type\":\"dynamicRenderer\",\"id\":\"x\"}"
O1 == "{\"type\":\"note\",\"id\":\"x\"}"
BAD == "{type: dynamicRenderer"
\* ts bodies
TX == "const spec = {type:\"dynamicRenderer\",id:\"x\",props:{n:3}}"
TY == "const spec = {type:\"dynamicRenderer\",id:\"y\"}"
CODE == "const total = 1 + 2"

Ids == {"x", "y"}

\* The value JSON.parse gives for each body that is well-formed JSON.
JsonValue ==
  X1 :> [type |-> "dynamicRenderer", id |-> "x", props |-> "{n:1}"] @@
  X2 :> [type |-> "dynamicRenderer", id |-> "x", props |-> "undefined"] @@
  O1 :> [type |-> "note", id |-> "x", props |-> "undefined"]

\* The value of spec after each statement that declares it.
TsValue ==
  TX :> [type |-> "dynamicRenderer", id |-> "x", props |-> "{n:3}"] @@
  TY :> [type |-> "dynamicRenderer", id |-> "y", props |-> "undefined"]

\* Statements that run without error in the body of a Function.
TsStatements == {TX, TY, CODE}

NoConfig == [type |-> "", id |-> "", props |-> "undefined"]

RECURSIVE Strip(_)
\* A body without its newlines (whitespace to both parsers).
Strip(body) ==
  IF body = <<>> THEN <<>>
  ELSE IF Head(body) = N THEN Strip(Tail(body))
  ELSE <<Head(body)>> \o Strip(Tail(body))

\* The body is one well-formed JSON value between optional whitespace.
WellFormedJson(block) ==
  LET s == Strip(block) IN Len(s) = 1 /\ s[1] \in DOMAIN JsonValue

\* A parser that gives up on a malformed body without throwing.
parseJsonBlockLenient(block) ==
  LET s == Strip(block) IN
  IF WellFormedJson(block)
  THEN [threw |-> FALSE, config |-> JsonValue[s[1]]]
  ELSE [threw |-> FALSE, config |-> NoConfig]

\* JSON.parse(jsonString): a value, or a SyntaxError thrown.
parseJsonBlock(block) ==
  LET s == Strip(block) IN
  IF WellFormedJson(block)
  THEN [threw |-> FALSE, config |-> JsonValue[s[1]]]
  ELSE [threw |-> TRUE, config |-> NoConfig]

\* new Function(tsString + "return spec;")(): the value of spec, or a
\* SyntaxError (not statements, or spec declared twice) or a ReferenceError
\* (spec never declared) thrown.
parseTsBlock(block) ==
  LET s == Strip(block)
      decl == {k \in 1..Len(s) : s[k] \in DOMAIN TsValue}
  IN
  IF (\A k \in 1..Len(s) : s[k] \in TsStatements) /\ Cardinality(decl) = 1
  THEN [threw |-> FALSE, config |-> TsValue[s[CHOOSE k \in decl : TRUE]]]
  ELSE [threw |-> TRUE, config |-> NoConfig]

parseBlock(block, type) ==
  IF type = J THEN parseJsonBlock(block) ELSE parseTsBlock(block)

\* config && config.type === "dynamicRenderer" && config.id === this.id
Matches(config, id) == config.type = "dynamicRenderer" /\ config.id = id

(***************************************************************************)
(* extractBlocks: fence, tag, newline, a lazy body, newline, fence, with   *)
(* the g flag, exec called until it returns null.                          *)
(***************************************************************************)
RECURSIVE FindOpen(_, _, _)
\* The least s >= p where fence, tag, newline stand; 0 when there is none.
FindOpen(c, type, p) ==
  IF p + 2 > Len(c) THEN 0
  ELSE IF c[p] = F /\ c[p + 1] = type /\ c[p + 2] = N THEN p
  ELSE FindOpen(c, type, p + 1)

\* A greedy body: the last newline, fence from p on; 0 when there is none.
FindCloseLast(c, p) ==
  IF \E e \in p..(Len(c) - 1) : c[e] = N /\ c[e + 1] = F
  THEN CHOOSE e \in p..(Len(c) - 1) :
         /\ c[e] = N /\ c[e + 1] = F
         /\ \A m \in (e + 1)..(Len(c) - 1) : ~(c[m] = N /\ c[m + 1] = F)
  ELSE 0

RECURSIVE FindClose(_, _)
\* The least e >= p where newline, fence stand; 0 when there is none.
FindClose(c, p) ==
  IF p + 1 > Len(c) THEN 0
  ELSE IF c[p] = N /\ c[p + 1] = F THEN p
  ELSE FindClose(c, p + 1)

RECURSIVE ExecFrom(_, _, _)
\* The spans [open, close] of the matches from lastIndex p on.
ExecFrom(c, type, p) ==
  LET s == FindOpen(c, type, p) IN
  IF s = 0 THEN <<>>
  ELSE LET e == FindClose(c, s + 3) IN
       IF e = 0 THEN <<>>
       ELSE <<[open |-> s, close |-> e]>> \o ExecFrom(c, type, e + 2)

blockSpans(c, type) == ExecFrom(c, type, 1)

extractBlocks(c, type) ==
  LET sp == blockSpans(c, type) IN
  [k \in 1..Len(sp) |-> SubSeq(c, sp[k].open + 3, sp[k].close - 1)]

(***************************************************************************)
(* Placeholders.                                                           *)
(***************************************************************************)
dynamicId(id, index) == id \o "-" \o ToString(index)

placeholder(did) == "<div id=\"" \o did \o "\"></div>"

\* The full fenced text blockRegex matches: the escaped block between its
\* fences matches that text and nothing else.
fenced(block, type) == <<F, type, N>> \o block \o <<N, F>>

MatchesAt(c, pat, p) ==
  /\ p + Len(pat) - 1 <= Len(c)
  /\ \A k \in 1..Len(pat) : c[p + k - 1] = pat[k]

RECURSIVE ReplaceFrom(_, _, _, _)
\* String.replace with a global regex: every match, left to right, none
\* overlapping an earlier one.
ReplaceFrom(c, pat, by, p) ==
  IF p > Len(c) THEN <<>>
  ELSE IF MatchesAt(c, pat, p) THEN <<by>> \o ReplaceFrom(c, pat, by, p + Len(pat))
  ELSE <<c[p]>> \o ReplaceFrom(c, pat, by, p + 1)

\* String.replace without the g flag: the first match only.
replaceFirst(c, pat, by) ==
  IF \E p \in 1..Len(c) : MatchesAt(c, pat, p)
  THEN LET q == CHOOSE p \in 1..Len(c) :
                  MatchesAt(c, pat, p) /\ \A m \in 1..(p - 1) : ~MatchesAt(c, pat, m)
       IN SubSeq(c, 1, q - 1) \o <<by>> \o SubSeq(c, q + Len(pat), Len(c))
  ELSE c

replaceAll(c, pat, by) == ReplaceFrom(c, pat, by, 1)

(***************************************************************************)
(* processInjectionBlocks.                                                 *)
(***************************************************************************)
\* processBlock without the test of config.id.
processBlockAnyId(st, block, type, id) ==
  LET parsed == parseBlock(block, type) IN
  IF parsed.threw THEN [st EXCEPT !.threw = TRUE]
  ELSE IF parsed.config.type = "dynamicRenderer"
  THEN [st EXCEPT
          !.renderedContent =
             replaceAll(st.renderedContent, fenced(block, type),
                        placeholder(dynamicId(id, st.index))),
          !.index = st.index + 1]
  ELSE st

\* One call of processBlock on the closure state st.
processBlock(st, block, type, id) ==
  LET parsed == parseBlock(block, type) IN
  IF parsed.threw THEN [st EXCEPT !.threw = TRUE]
  ELSE IF Matches(parsed.config, id)
  THEN [st EXCEPT
          !.renderedContent =
             replaceAll(st.renderedContent, fenced(block, type),
                        placeholder(dynamicId(id, st.index))),
          !.index = st.index + 1]
  ELSE st

RECURSIVE forEachBlock(_, _, _, _)
forEachBlock(st, blocks, type, id) ==
  IF st.threw \/ blocks = <<>> THEN st
  ELSE forEachBlock(processBlock(st, Head(blocks), type, id), Tail(blocks), type, id)

\* processInjectionBlocks going through the ts blocks before the json ones.
processInjectionBlocksTsFirst(c, id) ==
  LET jsonBlocks == extractBlocks(c, J)
      tsBlocks == extractBlocks(c, T)
      st0 == [threw |-> FALSE, renderedContent |-> c, index |-> 0]
      st1 == forEachBlock(st0, tsBlocks, T, id)
  IN forEachBlock(st1, jsonBlocks, J, id)

processInjectionBlocks(c, id) ==
  LET jsonBlocks == extractBlocks(c, J)
      tsBlocks == extractBlocks(c, T)
      st0 == [threw |-> FALSE, renderedContent |-> c, index |-> 0]
      st1 == forEachBlock(st0, jsonBlocks, J, id)
  IN forEachBlock(st1, tsBlocks, T, id)

(***************************************************************************)
(* generateComponentPairs and createComponentPairs.                        *)
(***************************************************************************)
RECURSIVE createFrom(_, _, _, _)
\* filter, then map with the index of the filtered list.
createFrom(configs, id, Component, index) ==
  IF configs = <<>> THEN <<>>
  ELSE IF Matches(Head(configs), id)
  THEN <<[id |-> dynamicId(id, index),
          Component |-> Component,
          props |-> IF Head(configs).props = "undefined" THEN "{}"
                    ELSE Head(configs).props]>>
       \o createFrom(Tail(configs), id, Component, index + 1)
  ELSE createFrom(Tail(configs), id, Component, index)

createComponentPairs(configs, id, Component) == createFrom(configs, id, Component, 0)

\* generateComponentPairs with the ts configs spread before the json ones.
generateComponentPairsTsFirst(c, id, Component) ==
  LET jsonBlocks == extractBlocks(c, J)
      tsBlocks == extractBlocks(c, T)
      parsed == [k \in 1..Len(tsBlocks) |-> parseTsBlock(tsBlocks[k])]
                \o [k \in 1..Len(jsonBlocks) |-> parseJsonBlock(jsonBlocks[k])]
  IN
  IF \E k \in 1..Len(parsed) : parsed[k].threw
  THEN [threw |-> TRUE, pairs |-> <<>>]
  ELSE [threw |-> FALSE,
        pairs |-> createComponentPairs([k \in 1..Len(parsed) |-> parsed[k].config],
                                       id, Component)]

generateComponentPairs(c, id, Component) ==
  LET jsonBlocks == extractBlocks(c, J)
      tsBlocks == extractBlocks(c, T)
      parsed == [k \in 1..Len(jsonBlocks) |-> parseJsonBlock(jsonBlocks[k])]
                \o [k \in 1..Len(tsBlocks) |-> parseTsBlock(tsBlocks[k])]
  IN
  IF \E k \in 1..Len(parsed) : parsed[k].threw
  THEN [threw |-> TRUE, pairs |-> <<>>]
  ELSE [threw |-> FALSE,
        pairs |-> createComponentPairs([k \in 1..Len(parsed) |-> parsed[k].config],
                                       id, Component)]

\* transformContentAndGetComponents making the pairs from the transformed
\* content instead of the content it was given.
transformThenGenerate(c, id, Component) ==
  LET t == processInjectionBlocks(c, id)
      g == generateComponentPairs(t.renderedContent, id, Component)
  IN
  IF t.threw \/ g.threw
  THEN [threw |-> TRUE, transformedContent |-> <<>>, componentPairs |-> <<>>]
  ELSE [threw |-> FALSE, transformedContent |-> t.renderedContent,
        componentPairs |-> g.pairs]

transformContentAndGetComponents(c, id, Component) ==
  LET t == processInjectionBlocks(c, id)
      g == generateComponentPairs(c, id, Component)
  IN
  IF t.threw \/ g.threw
  THEN [threw |-> TRUE, transformedContent |-> <<>>, componentPairs |-> <<>>]
  ELSE [threw |-> FALSE, transformedContent |-> t.renderedContent,
        componentPairs |-> g.pairs]

(***************************************************************************)
(* Inputs.                                                                 *)
(***************************************************************************)
Segments ==
  {fenced(<<b>>, J) : b \in {X1, X2, O1, BAD}}
  \cup {fenced(<<b>>, T) : b \in {TX, TY, CODE}}
  \cup {<<T, N, TY, N, F>>, <<J, N, X1, N, F>>}
  \cup {<<P, N>>}

RECURSIVE Flatten(_)
Flatten(ss) == IF ss = <<>> THEN <<>> ELSE Head(ss) \o Flatten(Tail(ss))

\* The contents made of at most n segments.
ContentsOf(n) == {Flatten(ss) : ss \in UNION {[1..m -> Segments] : m \in 0..n}}

Contents == ContentsOf(MaxSegs)

DefX == [id |-> "x", Component |-> "ExampleDynamicComponent"]
DefY == [id |-> "y", Component |-> "HighlightDisplayComponent"]

DefinitionLists ==
  {<<>>, <<DefX>>, <<DefY>>, <<DefX, DefY>>, <<DefY, DefX>>, <<DefX, DefX>>}

NoResult == [returned |-> FALSE, transformedContent |-> <<>>, componentPairs |-> <<>>]

NoExtract == [type |-> "", blocks |-> <<>>]

NoFirst == [called |-> FALSE, threw |-> FALSE, result |-> NoResult]

Init ==
  /\ content \in Contents
  /\ definitions \in DefinitionLists
  /\ pc = "start"
  /\ currentContent = <<>>
  /\ allComponentPairs = <<>>
  /\ i = 0
  /\ passes = <<>>
  /\ result = NoResult
  /\ dom = <<>>
  /\ roots = <<>>
  /\ extracted = NoExtract
  /\ form = "positional"
  /\ first = NoFirst
  /\ renders = 1
  /\ deps = 0

(***************************************************************************)
(* processDynamicComponents.                                               *)
(***************************************************************************)
\* The arguments of a call of either form: the content and the definitions
\* as two arguments, or one options record and no second argument.
Arguments(f, c, d) ==
  IF f = "positional"
  THEN [initialContentOrOptions |->
          [isString |-> TRUE, string |-> c,
           initialContent |-> <<>>, componentDefinitions |-> <<>>],
        componentDefinitions |-> d]
  ELSE [initialContentOrOptions |->
          [isString |-> FALSE, string |-> <<>>,
           initialContent |-> c, componentDefinitions |-> d],
        componentDefinitions |-> <<>>]

\* An implementation that reads its two parameters whatever the form.
UnpackPositional(a) ==
  [content |-> a.initialContentOrOptions.string,
   definitions |-> a.componentDefinitions]

\* typeof initialContentOrOptions === "string" ? ... : ...
Unpack(a) ==
  IF a.initialContentOrOptions.isString
  THEN [content |-> a.initialContentOrOptions.string,
        definitions |-> a.componentDefinitions]
  ELSE [content |-> a.initialContentOrOptions.initialContent,
        definitions |-> a.initialContentOrOptions.componentDefinitions]

\* The locals content and definitions of the running call.
Locals == Unpack(Arguments(form, content, definitions))

\* A call that parses every block of the content before its loop.
CallValidating ==
  /\ pc = "start"
  /\ currentContent' = content
  /\ allComponentPairs' = <<>>
  /\ i' = 1
  /\ pc' = IF \/ \E k \in 1..Len(extractBlocks(content, J)) :
                   parseJsonBlock(extractBlocks(content, J)[k]).threw
              \/ \E k \in 1..Len(extractBlocks(content, T)) :
                   parseTsBlock(extractBlocks(content, T)[k]).threw
           THEN "thrown" ELSE "loop"
  /\ UNCHANGED <<content, definitions, passes, result, dom, roots,
                 extracted, form, first, renders, deps>>

Call ==
  /\ pc = "start"
  /\ currentContent' = Locals.content
  /\ allComponentPairs' = <<>>
  /\ i' = 1
  /\ pc' = "loop"
  /\ UNCHANGED <<content, definitions, passes, result, dom, roots,
                 extracted, form, first, renders, deps>>

\* One iteration of the for loop over definitions.
Iterate ==
  /\ pc = "loop"
  /\ i <= Len(Locals.definitions)
  /\ LET d == Locals.definitions[i]
         r == transformContentAndGetComponents(currentContent, d.id, d.Component)
     IN
     /\ passes' = Append(passes, [id |-> d.id, input |-> currentContent,
                                  threw |-> r.threw,
                                  output |-> r.transformedContent,
                                  pairs |-> r.componentPairs])
     /\ IF r.threw
        THEN /\ pc' = "thrown"
             /\ UNCHANGED <<currentContent, allComponentPairs, i>>
        ELSE /\ currentContent' = r.transformedContent
             /\ allComponentPairs' = allComponentPairs \o r.componentPairs
             /\ i' = i + 1
             /\ pc' = "loop"
  /\ UNCHANGED <<content, definitions, result, dom, roots,
                 extracted, form, first, renders, deps>>

Return ==
  /\ pc = "loop"
  /\ i > Len(Locals.definitions)
  /\ result' = [returned |-> TRUE, transformedContent |-> currentContent,
                componentPairs |-> allComponentPairs]
  /\ pc' = "returned"
  /\ UNCHANGED <<content, definitions, currentContent, allComponentPairs, i,
                 passes, dom, roots,
                 extracted, form, first, renders, deps>>

(***************************************************************************)
(* The host component: ReactMarkdown with rehype-raw turns every           *)
(* placeholder of transformedContent into a div element; the effect of     *)
(* useDynamicComponents then runs over componentPairs.                     *)
(***************************************************************************)
AnchorIds == {dynamicId(id, k) : id \in Ids, k \in 0..MaxSegs}

IsPlaceholder(tok) == \E a \in AnchorIds : tok = placeholder(a)

ElementId(tok) == CHOOSE a \in AnchorIds : tok = placeholder(a)

\* The id attributes of the div elements of a content, in document order.
elementIds(c) ==
  LET divs == SelectSeq(c, IsPlaceholder) IN
  [k \in 1..Len(divs) |-> ElementId(divs[k])]

Render ==
  /\ pc = "returned"
  /\ dom' = elementIds(result.transformedContent)
  /\ pc' = "rendered"
  /\ UNCHANGED <<content, definitions, currentContent, allComponentPairs, i,
                 passes, result, roots,
                 extracted, form, first, renders, deps>>

\* document.getElementById: the first element of the document with that id,
\* 0 for null.
getElementById(d, id) ==
  IF \E k \in 1..Len(d) : d[k] = id
  THEN CHOOSE k \in 1..Len(d) : d[k] = id /\ \A m \in 1..(k - 1) : d[m] # id
  ELSE 0

RECURSIVE forEachPairStopping(_, _, _)
\* A loop that ends at the first pair whose element is missing.
forEachPairStopping(components, d, calls) ==
  IF components = <<>> THEN calls
  ELSE LET pair == Head(components)
           container == getElementById(d, pair.id)
       IN IF container = 0 THEN calls
          ELSE forEachPairStopping(Tail(components), d,
                                   Append(calls, [container |-> container,
                                                  id |-> pair.id,
                                                  Component |-> pair.Component,
                                                  props |-> pair.props]))

RECURSIVE forEachPair(_, _, _)
\* components.forEach: the hydrateRoot calls made, in order.
forEachPair(components, d, calls) ==
  IF components = <<>> THEN calls
  ELSE LET pair == Head(components)
           container == getElementById(d, pair.id)
       IN forEachPair(Tail(components), d,
                      IF container # 0
                      THEN Append(calls, [container |-> container, id |-> pair.id,
                                          Component |-> pair.Component,
                                          props |-> pair.props])
                      ELSE calls)

\* The effect after a commit. Its dependency is the componentPairs array,
\* compared by identity with the one of the effect's last run; the array of
\* a render is the one its own call of processDynamicComponents created, so
\* the number of the render stands for its identity.
Effect ==
  /\ pc = "rendered"
  /\ roots' = IF deps # renders
              THEN forEachPair(result.componentPairs, dom, roots)
              ELSE roots
  /\ deps' = renders
  /\ pc' = "mounted"
  /\ UNCHANGED <<content, definitions, currentContent, allComponentPairs, i,
                 passes, result, dom,
                 extracted, form, first, renders>>

Next == Call \/ Iterate \/ Return \/ Render \/ Effect

Spec == Init /\ [][Next]_vars

(***************************************************************************)
(* Vocabulary of the properties.                                           *)
(***************************************************************************)
Occurrences(c, pat) == {p \in 1..Len(c) : MatchesAt(c, pat, p)}

Bodies(c, type) == extractBlocks(c, type)

AllParse(c) ==
  /\ \A k \in 1..Len(Bodies(c, J)) : ~parseJsonBlock(Bodies(c, J)[k]).threw
  /\ \A k \in 1..Len(Bodies(c, T)) : ~parseTsBlock(Bodies(c, T)[k]).threw

BlockMatches(block, type, id) ==
  /\ ~parseBlock(block, type).threw
  /\ Matches(parseBlock(block, type).config, id)

\* The bodies of the blocks of one tag that match id, in text order.
Matching(c, type, id) ==
  SelectSeq(Bodies(c, type), LAMBDA b : BlockMatches(b, type, id))

NoMatch(c, id) == Matching(c, J, id) = <<>> /\ Matching(c, T, id) = <<>>

Distinct(seq) == \A a, b \in 1..Len(seq) : a # b => seq[a] # seq[b]

PairIds(pairs) == [k \in 1..Len(pairs) |-> pairs[k].id]

Finished == pc \in {"returned", "rendered", "mounted"}
(***************************************************************************)
(* C1.                                                                     *)
(***************************************************************************)
RECURSIVE ByPosition(_, _, _, _, _)
\* c with its k-th span replaced by the placeholder of index k - 1.
ByPosition(c, spans, id, p, k) ==
  IF p > Len(c) THEN <<>>
  ELSE IF k <= Len(spans) /\ p = spans[k].open
  THEN <<placeholder(dynamicId(id, k - 1))>>
       \o ByPosition(c, spans, id, spans[k].close + 2, k + 1)
  ELSE <<c[p]>> \o ByPosition(c, spans, id, p + 1, k)

\* The only fenced blocks of c are n >= 1 pairwise distinct json blocks, all
\* of type dynamicRenderer and id.
OnlyDistinctJsonBlocksOf(c, id) ==
  /\ Bodies(c, T) = <<>>
  /\ Len(Bodies(c, J)) >= 1
  /\ Distinct(Bodies(c, J))
  /\ \A k \in 1..Len(Bodies(c, J)) : BlockMatches(Bodies(c, J)[k], J, id)

\* C1: when the only fenced blocks of the content are n >= 1 pairwise
\* distinct json blocks of type dynamicRenderer and id x, the call with the
\* one definition x returns the content with its k-th block replaced by the
\* placeholder x-k and nothing else changed, and pairs x-0 .. x-(n-1).
C1_EachBlockReplacedInPlace ==
  \A d \in {DefX, DefY} :
    (definitions = <<d>> /\ OnlyDistinctJsonBlocksOf(content, d.id))
    => /\ pc # "thrown"
       /\ Finished =>
            /\ result.transformedContent
                 = ByPosition(content, blockSpans(content, J), d.id, 1, 1)
            /\ PairIds(result.componentPairs)
                 = [k \in 1..Len(Bodies(content, J)) |-> dynamicId(d.id, k - 1)]

(***************************************************************************)
(* C2.                                                                     *)
(***************************************************************************)
HasMalformedJson(c) ==
  \E k \in 1..Len(Bodies(c, J)) : ~WellFormedJson(Bodies(c, J)[k])

\* C2 as stated: a call on a content with a json block whose body is not
\* well-formed JSON never returns.
C2_MalformedJsonAlwaysThrows ==
  HasMalformedJson(content) => ~Finished

\* C2 amended: with at least one definition, a call on a content with a json
\* block whose body is not well-formed JSON throws in its first iteration
\* and returns nothing.
C2_MalformedJsonThrowsGivenADefinition ==
  (HasMalformedJson(content) /\ definitions # <<>>)
  => /\ pc \in {"start", "loop", "thrown"}
     /\ pc = "loop" => i = 1
     /\ result = NoResult
     /\ dom = <<>> /\ roots = <<>>

\* The call threw although a well-formed matching block stands before the
\* malformed one and the malformed one would not have matched.
C2_Witness ==
  /\ pc = "thrown"
  /\ definitions = <<DefX>>
  /\ Len(Bodies(content, J)) >= 2
  /\ BlockMatches(Bodies(content, J)[1], J, "x")
  /\ ~WellFormedJson(Bodies(content, J)[2])

(***************************************************************************)
(* C3.                                                                     *)
(***************************************************************************)
PassUnchanged(p) == ~p.threw /\ p.output = p.input /\ p.pairs = <<>>

\* C3 as stated: a pass over a content in which no fenced block parses to a
\* matching descriptor returns the content unchanged with no bindings and
\* does not fail.
C3_NoMatchLeavesContent ==
  \A k \in 1..Len(passes) :
    NoMatch(passes[k].input, passes[k].id) => PassUnchanged(passes[k])

\* C3 amended: a pass over a content all of whose json and ts blocks parse
\* and none of which matches returns the content unchanged with no bindings
\* and does not fail.
C3_NoMatchLeavesParsedContent ==
  \A k \in 1..Len(passes) :
    (AllParse(passes[k].input) /\ NoMatch(passes[k].input, passes[k].id))
    => PassUnchanged(passes[k])

\* A pass for y ran over a content with a json block of another type and a
\* ts block of another id.
C3_Witness ==
  \E k \in 1..Len(passes) :
    /\ passes[k].id = "y"
    /\ NoMatch(passes[k].input, "y")
    /\ <<O1>> \in {Bodies(passes[k].input, J)[m] : m \in 1..Len(Bodies(passes[k].input, J))}
    /\ <<TX>> \in {Bodies(passes[k].input, T)[m] : m \in 1..Len(Bodies(passes[k].input, T))}
    /\ PassUnchanged(passes[k])

(***************************************************************************)
(* C4.                                                                     *)
(***************************************************************************)
\* Every block of tag type that parses and does not match keeps its full
\* fenced text in the output of the pass.
NonMatchingIntact(p, type) ==
  \A k \in 1..Len(Bodies(p.input, type)) :
    LET b == Bodies(p.input, type)[k] IN
    (~parseBlock(b, type).threw /\ ~BlockMatches(b, type, p.id))
    => Occurrences(p.output, fenced(b, type)) # {}

\* C4: in a pass that returns, every fenced block that parses and does not
\* match is in the returned content with its full fenced text.
C4_NonMatchingBlocksIntact ==
  \A k \in 1..Len(passes) :
    ~passes[k].threw
    => NonMatchingIntact(passes[k], J) /\ NonMatchingIntact(passes[k], T)

(***************************************************************************)
(* C5.                                                                     *)
(***************************************************************************)
DistinctDefinitionIds ==
  Distinct([k \in 1..Len(definitions) |-> definitions[k].id])

\* C5: in the content returned by a call with pairwise distinct definition
\* ids, no two placeholder elements carry the same id.
C5_PlaceholderIdsUnique ==
  (Finished /\ DistinctDefinitionIds)
  => Distinct(elementIds(result.transformedContent))

(***************************************************************************)
(* C6.                                                                     *)
(***************************************************************************)
\* The blocks of c that match id are two json blocks of the same text, that
\* text stands in c at those two places only, and every block parses.
TwoIdenticalJsonBlocksOf(c, id) ==
  /\ AllParse(c)
  /\ Matching(c, T, id) = <<>>
  /\ Len(Matching(c, J, id)) = 2
  /\ Matching(c, J, id)[1] = Matching(c, J, id)[2]
  /\ Cardinality(Occurrences(c, fenced(Matching(c, J, id)[1], J))) = 2

PropsOf(block, type) ==
  LET v == parseBlock(block, type).config.props IN
  IF v = "undefined" THEN "{}" ELSE v

\* C7: a pass that returns mints the pair ids r-0 .. r-(n-1), n the number
\* of matching descriptors, the matching json blocks in text order first and
\* the matching ts blocks in text order after them, from 0 in every pass.
C7_DenseIdsJsonBeforeTs ==
  \A k \in 1..Len(passes) :
    LET p == passes[k]
        mj == Matching(p.input, J, p.id)
        mt == Matching(p.input, T, p.id)
        n == Len(mj) + Len(mt)
    IN ~p.threw =>
         /\ PairIds(p.pairs) = [m \in 1..n |-> dynamicId(p.id, m - 1)]
         /\ [m \in 1..Len(p.pairs) |-> p.pairs[m].props]
              = [m \in 1..Len(mj) |-> PropsOf(mj[m], J)]
                \o [m \in 1..Len(mt) |-> PropsOf(mt[m], T)]

\* A pass in which a matching ts block stands before a matching json block:
\* the json block has index 0, the ts block index 1.
C7_Witness ==
  \E k \in 1..Len(passes) :
    LET p == passes[k] IN
    /\ ~p.threw
    /\ blockSpans(p.input, T) # <<>> /\ blockSpans(p.input, J) # <<>>
    /\ blockSpans(p.input, T)[1].open < blockSpans(p.input, J)[1].open
    /\ BlockMatches(Bodies(p.input, T)[1], T, p.id)
    /\ BlockMatches(Bodies(p.input, J)[1], J, p.id)
    /\ Len(p.pairs) = 2
    /\ p.pairs[1].props = PropsOf(Bodies(p.input, J)[1], J)
    /\ p.pairs[2].id = dynamicId(p.id, 1)

(***************************************************************************)
(* C8.                                                                     *)
(***************************************************************************)
\* The ids of the elements of c that the renderer id minted.
AnchorsOf(c, id) ==
  SelectSeq(elementIds(c), LAMBDA a : \E k \in 0..MaxSegs : a = dynamicId(id, k))

\* C8: with definitions [A, B] of different ids the call returns what the
\* chain of processInjectionBlocks and generateComponentPairs calls on two
\* renderers gives: B's substitution of A's substitution of the content,
\* A's pairs from the content followed by B's pairs from the content after
\* A's substitution; A's pairs and placeholders outlast B's pass; and the
\* call throws only when the chain does.
C8_PipelineIsTheChain ==
  (Len(definitions) = 2 /\ DistinctDefinitionIds) =>
    LET A == definitions[1]
        B == definitions[2]
        a == processInjectionBlocks(content, A.id)
        ga == generateComponentPairs(content, A.id, A.Component)
        b == processInjectionBlocks(a.renderedContent, B.id)
        gb == generateComponentPairs(a.renderedContent, B.id, B.Component)
        chainThrew == a.threw \/ ga.threw \/ b.threw \/ gb.threw
    IN /\ pc = "thrown" => chainThrew
       /\ Finished =>
            /\ ~chainThrew
            /\ result.transformedContent = b.renderedContent
            /\ result.componentPairs = ga.pairs \o gb.pairs
            /\ SubSeq(result.componentPairs, 1, Len(passes[1].pairs)) = passes[1].pairs
            /\ AnchorsOf(result.transformedContent, A.id)
                 = elementIds(a.renderedContent)

\* A call with two definitions returned, and each pass made a pair.
C8_Witness ==
  /\ Len(definitions) = 2 /\ DistinctDefinitionIds
  /\ pc = "returned"
  /\ passes[1].pairs # <<>> /\ passes[2].pairs # <<>>
  /\ passes[2].output # passes[2].input

(***************************************************************************)
(* C9.                                                                     *)
(***************************************************************************)
\* C9: a call with no definitions returns the input content and no pairs,
\* whatever the content holds.
C9_NoDefinitionsNoChange ==
  definitions = <<>> =>
    /\ pc # "thrown"
    /\ Finished => /\ result.transformedContent = content
                   /\ result.componentPairs = <<>>

\* A call with no definitions returned on a content with a malformed block.
C9_Witness ==
  /\ definitions = <<>>
  /\ pc = "returned"
  /\ HasMalformedJson(content)

(***************************************************************************)
(* C10.                                                                    *)
(***************************************************************************)
\* C10: after the call and one run of the effect, every placeholder element
\* is the container of exactly one hydrateRoot call and every pair found an
\* element with its id.
C10_EveryPlaceholderMountedOnce ==
  pc = "mounted" =>
    /\ \A node \in 1..Len(dom) :
         Cardinality({r \in 1..Len(roots) : roots[r].container = node}) = 1
    /\ \A k \in 1..Len(result.componentPairs) :
         getElementById(dom, result.componentPairs[k].id) # 0
(***************************************************************************)
(* extractBlocks on its own, over contents made of the pieces of fences.   *)
(***************************************************************************)
MaxPieces == 6

Pieces == {<<F, J, N>>, <<F, T, N>>, <<N, F>>, <<P>>, <<J, N>>}

PieceContents ==
  {Flatten(ss) : ss \in UNION {[1..m -> Pieces] : m \in 0..MaxPieces}}

InitExtract ==
  /\ content \in PieceContents
  /\ definitions = <<>>
  /\ pc = "extract"
  /\ currentContent = <<>>
  /\ allComponentPairs = <<>>
  /\ i = 0
  /\ passes = <<>>
  /\ result = NoResult
  /\ dom = <<>>
  /\ roots = <<>>
  /\ extracted = NoExtract
  /\ form = "positional"
  /\ first = NoFirst
  /\ renders = 1
  /\ deps = 0

\* One call of extractBlocks(content, type).
Extract ==
  /\ pc = "extract"
  /\ \E type \in {J, T} :
       extracted' = [type |-> type, blocks |-> extractBlocks(content, type)]
  /\ pc' = "extracted"
  /\ UNCHANGED <<content, definitions, currentContent, allComponentPairs, i,
                 passes, result, dom, roots, form, first, renders, deps>>

SpecExtract == InitExtract /\ [][Extract]_vars

(***************************************************************************)
(* C11.                                                                    *)
(***************************************************************************)
IsOpen(c, type, s) ==
  s + 2 <= Len(c) /\ c[s] = F /\ c[s + 1] = type /\ c[s + 2] = N

IsClose(c, e) == e + 1 <= Len(c) /\ c[e] = N /\ c[e + 1] = F

\* The opening fences of the tag that some newline, fence follows.
ClosableOpens(c, type) ==
  {s \in 1..Len(c) : IsOpen(c, type, s) /\ \E e \in (s + 3)..Len(c) : IsClose(c, e)}

NearestClose(c, s) ==
  CHOOSE e \in (s + 3)..Len(c) :
    IsClose(c, e) /\ \A m \in (s + 3)..(e - 1) : ~IsClose(c, m)

\* S is the set of spans a left-to-right scan takes: an opening fence is in
\* S exactly when no earlier span of S reaches it.
IsScan(c, type, S) ==
  \A s \in ClosableOpens(c, type) :
    s \in S <=> ~\E r \in S : r < s /\ s <= NearestClose(c, r) + 1

Ascending(S) ==
  CHOOSE q \in [1..Cardinality(S) -> S] :
    \A a, b \in 1..Cardinality(S) : a < b => q[a] < q[b]

\* C11: extractBlocks(content, tag) returns, in order of position, the
\* bodies of exactly the non-overlapping spans a left-to-right scan finds,
\* each from fence, tag, newline to the nearest following newline, fence;
\* it returns the empty list when there is no such span, an opening fence
\* that is never closed included.
C11_ExtractIsTheScan ==
  pc = "extracted" =>
    \E S \in SUBSET ClosableOpens(content, extracted.type) :
      /\ IsScan(content, extracted.type, S)
      /\ extracted.blocks =
           [k \in 1..Cardinality(S) |->
              SubSeq(content, Ascending(S)[k] + 3,
                     NearestClose(content, Ascending(S)[k]) - 1)]
      /\ ClosableOpens(content, extracted.type) = {} => extracted.blocks = <<>>

\* Two blocks of different bodies were extracted, and an opening fence of
\* the tag that is never closed stands after them.
C11_Witness ==
  /\ pc = "extracted"
  /\ Len(extracted.blocks) = 2
  /\ extracted.blocks[1] # extracted.blocks[2]
  /\ \E s \in 1..Len(content) :
       IsOpen(content, extracted.type, s) /\ s \notin ClosableOpens(content, extracted.type)
(***************************************************************************)
(* The two forms of the call, one after the other on the same content and  *)
(* definitions.                                                            *)
(***************************************************************************)
OverloadSegs == 2

InitOverload ==
  /\ content \in ContentsOf(OverloadSegs)
  /\ definitions \in DefinitionLists
  /\ pc = "start"
  /\ currentContent = <<>>
  /\ allComponentPairs = <<>>
  /\ i = 0
  /\ passes = <<>>
  /\ result = NoResult
  /\ dom = <<>>
  /\ roots = <<>>
  /\ extracted = NoExtract
  /\ form = "positional"
  /\ first = NoFirst
  /\ renders = 1
  /\ deps = 0

\* The outcome of the positional call is kept and the options form is set
\* up on the same content and definitions.
SecondCall ==
  /\ form = "positional"
  /\ pc \in {"returned", "thrown"}
  /\ first' = [called |-> TRUE, threw |-> (pc = "thrown"), result |-> result]
  /\ form' = "options"
  /\ pc' = "start"
  /\ result' = NoResult
  /\ passes' = <<>>
  /\ UNCHANGED <<content, definitions, currentContent, allComponentPairs, i,
                 dom, roots, extracted, renders, deps>>

NextOverload == Call \/ Iterate \/ Return \/ SecondCall

SpecOverload == InitOverload /\ [][NextOverload]_vars

(***************************************************************************)
(* C12.                                                                    *)
(***************************************************************************)
\* C12: on equal content and definitions the options form returns the same
\* transformedContent and the same pairs as the positional form, and throws
\* exactly when the positional form does.
C12_FormsAgree ==
  (form = "options" /\ pc \in {"returned", "thrown"}) =>
    /\ first.called
    /\ (pc = "thrown") = first.threw
    /\ result.transformedContent = first.result.transformedContent
    /\ PairIds(result.componentPairs) = PairIds(first.result.componentPairs)
    /\ result = first.result

\* The options form returned a changed content with pairs.
C12_Witness ==
  /\ form = "options"
  /\ pc = "returned"
  /\ result.componentPairs # <<>>
  /\ result.transformedContent # content
(***************************************************************************)
(* C13.                                                                    *)
(***************************************************************************)
HasNode(d, id) == \E k \in 1..Len(d) : d[k] = id

\* C13: one run of the effect goes through the pairs once in list order;
\* a pair whose id has an element gets one hydrateRoot call, on the first
\* element of that id, with the element its factory makes; a pair whose id
\* has no element gets none and does not stop the pairs after it.
C13_EffectVisitsEachPairOnce ==
  pc = "mounted" =>
    LET found == SelectSeq(result.componentPairs, LAMBDA p : HasNode(dom, p.id)) IN
    /\ Len(roots) = Len(found)
    /\ \A m \in 1..Len(roots) :
         /\ roots[m].id = found[m].id
         /\ roots[m].Component = found[m].Component
         /\ roots[m].props = found[m].props
         /\ roots[m].container \in 1..Len(dom)
         /\ dom[roots[m].container] = found[m].id
         /\ \A k \in 1..(roots[m].container - 1) : dom[k] # found[m].id

\* A pair without an element stands before a pair with one, and the later
\* pair was mounted.
C13_Witness ==
  /\ pc = "mounted"
  /\ \E a, b \in 1..Len(result.componentPairs) :
       /\ a < b
       /\ ~HasNode(dom, result.componentPairs[a].id)
       /\ HasNode(dom, result.componentPairs[b].id)
       /\ \E m \in 1..Len(roots) : roots[m].id = result.componentPairs[b].id
(***************************************************************************)
(* C14.                                                                    *)
(***************************************************************************)
Mismatch == [anchor |-> "mismatch", type |-> "", block |-> <<>>]

RECURSIVE Replaced(_, _, _, _)
\* The output of a pass read against its input: for every placeholder the
\* pass wrote, its id and the fenced block of the input standing where the
\* placeholder now stands; Mismatch when the output is not the input with
\* fenced blocks replaced by placeholders.
Replaced(out, in, po, pi) ==
  IF po > Len(out) THEN (IF pi > Len(in) THEN <<>> ELSE <<Mismatch>>)
  ELSE IF pi <= Len(in) /\ in[pi] = out[po]
  THEN Replaced(out, in, po + 1, pi + 1)
  ELSE IF /\ IsPlaceholder(out[po])
          /\ pi + 2 <= Len(in)
          /\ in[pi] = F /\ in[pi + 1] \in {J, T} /\ in[pi + 2] = N
          /\ \E e \in (pi + 3)..Len(in) : IsClose(in, e)
  THEN <<[anchor |-> ElementId(out[po]), type |-> in[pi + 1],
          block |-> SubSeq(in, pi + 3, NearestClose(in, pi) - 1)]>>
       \o Replaced(out, in, po + 1, NearestClose(in, pi) + 2)
  ELSE <<Mismatch>>

\* C14: in every pass that returns, each placeholder r-k written into the
\* content stands for the fenced text of a matching block, and the pair of
\* id r-k carries the props of that block ({} when it has none).
C14_PlaceholderAndPairAgree ==
  \A n \in 1..Len(passes) :
    LET p == passes[n]
        rs == Replaced(p.output, p.input, 1, 1)
    IN ~p.threw =>
         \A m \in 1..Len(rs) :
           /\ rs[m] # Mismatch
           /\ BlockMatches(rs[m].block, rs[m].type, p.id)
           /\ \E k \in 1..Len(p.pairs) :
                /\ p.pairs[k].id = rs[m].anchor
                /\ p.pairs[k].id = dynamicId(p.id, k - 1)
                /\ p.pairs[k].props = PropsOf(rs[m].block, rs[m].type)

\* A pass wrote placeholders for a ts block and, after it in the text, for
\* a json block that has no props.
C14_Witness ==
  \E n \in 1..Len(passes) :
    LET p == passes[n]
        rs == Replaced(p.output, p.input, 1, 1)
    IN /\ ~p.threw
       /\ Len(rs) = 2
       /\ rs[1].type = T /\ rs[2].type = J
       /\ rs[1].anchor = dynamicId(p.id, 1)
       /\ rs[2].anchor = dynamicId(p.id, 0)
       /\ PropsOf(rs[2].block, J) = "{}"
(***************************************************************************)
(* C15. The host component rendered again with the same content and        *)
(* definitions.                                                            *)
(***************************************************************************)
RerenderSegs == 2

MaxRenders == 2

InitRerender ==
  /\ content \in ContentsOf(RerenderSegs)
  /\ definitions \in DefinitionLists
  /\ pc = "start"
  /\ currentContent = <<>>
  /\ allComponentPairs = <<>>
  /\ i = 0
  /\ passes = <<>>
  /\ result = NoResult
  /\ dom = <<>>
  /\ roots = <<>>
  /\ extracted = NoExtract
  /\ form = "positional"
  /\ first = NoFirst
  /\ renders = 1
  /\ deps = 0

\* The host component function is run again: its body calls
\* processDynamicComponents anew. The document and the roots mounted so far
\* stay.
Rerender ==
  /\ pc = "mounted"
  /\ renders < MaxRenders
  /\ renders' = renders + 1
  /\ pc' = "start"
  /\ result' = NoResult
  /\ passes' = <<>>
  /\ UNCHANGED <<content, definitions, currentContent, allComponentPairs, i,
                 dom, roots, extracted, form, first, deps>>

NextRerender == Call \/ Iterate \/ Return \/ Render \/ Effect \/ Rerender

SpecRerender == InitRerender /\ [][NextRerender]_vars

\* The hydrateRoot calls made on an element of the document.
RootsOn(node) == {r \in 1..Len(roots) : roots[r].container = node}

\* C15: over any renders and re-renders with the same content and
\* definitions, hydrateRoot is called at most once on each container.
C15_AtMostOneRootPerContainer ==
  \A node \in 1..Len(dom) : Cardinality(RootsOn(node)) <= 1
====
